---- MODULE Spec2Model ----
(***************************************************************************)
(* State-machine model of NetworKit's GraphTools                           *)
(* (networkit/cpp/graph/GraphTools.cpp): degree reduction, subgraph        *)
(* extraction, transpose, append / merge and node-id compaction with       *)
(* restoreGraph, over a model of the Graph storage engine.                 *)
(***************************************************************************)
EXTENDS Integers, Sequences, FiniteSets, TLC

(* ---------------------------- bounds ----------------------------------- *)
\* largest id space of a graph built as input of a one-graph operation
MaxNodes == 3
\* largest size of such a graph: its id space plus its addEdge calls
MaxSize == 5
\* largest id space of each of the two inputs of append / merge
MaxPairNodes == 2
\* largest size (id space plus edges) of the accumulator and of the source
MaxTargetSize == 3
MaxSourceSize == 4
\* number of threads of the parallel degree reduction
NumThreads == 2

\* edge weights used when building weighted graphs
Weights == {1, 2}

(* ------------------- Graph storage engine ------------------------------ *)
\* weight reported for every edge of an unweighted graph
defaultEdgeWeight == 1
\* the "no edge id" marker
none == -1

VARIABLES
    pc,                  \* position of the caller
    G,                   \* the (first) graph; the accumulator of append/merge
    G1,                  \* the source graph of append / merge
    nodeIdMap,           \* result of getContinuousNodeIds
    invertedIdMap,       \* result of invertContinuousNodeIds
    Gcompact,            \* result of getCompactedGraph
    Goriginal,           \* result of restoreGraph
    Gin,                 \* transpose: the graph being transposed
    GTranspose,          \* transpose: the graph under construction
    wpc,                 \* transpose: position of the worker of each node id
    lock,                \* transpose: owner of the omp critical section
    writers,             \* transpose: which workers wrote each node's lists
    err,                 \* transpose: the error raised, if any
    GT1,                 \* transpose: the first returned graph
    GT2,                 \* transpose: transpose of the first returned graph
    nodes,               \* subgraphFromNodes: the node set
    includeOutNeighbors, \* subgraphFromNodes: flag
    includeInNeighbors,  \* subgraphFromNodes: flag
    S,                   \* subgraphFromNodes: the result
    Gpre,                \* append / merge: the accumulator before the call
    Gmid,                \* merge: the accumulator after the first merge
    inDegree,            \* computeMaxDegree: the flag
    todo,                \* computeMaxDegree: loop iterations not yet run
    priv,                \* computeMaxDegree: each thread's private result
    joined,              \* computeMaxDegree: threads already combined
    result               \* computeMaxDegree: the shared / returned result

graphVars  == <<G, G1>>
idVars     == <<nodeIdMap, invertedIdMap, Gcompact, Goriginal>>
trVars     == <<Gin, GTranspose, wpc, lock, writers, err, GT1, GT2>>
subVars    == <<nodes, includeOutNeighbors, includeInNeighbors, S>>
combVars   == <<Gpre, Gmid>>
degVars    == <<inDegree, todo, priv, joined, result>>
vars == <<pc, graphVars, idVars, trVars, subVars, combVars, degVars>>

\* Graph(n, weighted, directed): n existing nodes, no edges, edges not indexed
NewGraph(n, weighted, directed) ==
    [ z            |-> n,
      exists       |-> [u \in 0..(n-1) |-> TRUE],
      n            |-> n,
      m            |-> 0,
      selfLoops    |-> 0,
      omega        |-> 0,
      weighted     |-> weighted,
      directed     |-> directed,
      edgesIndexed |-> FALSE,
      outEdges     |-> [u \in 0..(n-1) |-> <<>>],
      inEdges      |-> [u \in 0..(n-1) |-> <<>>] ]

\* placeholder for a graph variable that holds no graph yet
NoGraph == [z |-> none]

upperNodeIdBound(g) == g.z
numberOfNodes(g) == g.n
numberOfEdges(g) == g.m
numberOfSelfLoops(g) == g.selfLoops
upperEdgeIdBound(g) == g.omega
hasEdgeIds(g) == g.edgesIndexed
isDirected(g) == g.directed
isWeighted(g) == g.weighted

hasNode(g, v) == v < g.z /\ g.exists[v]

degreeOut(g, u) == Len(g.outEdges[u])

degreeIn(g, u) == IF g.directed THEN Len(g.inEdges[u]) ELSE Len(g.outEdges[u])

\* indexEdges on a graph (used here on graphs without edges only)
indexEdges(g) == [g EXCEPT !.edgesIndexed = TRUE]

\* addNode: the new node gets id z
addNode(g) ==
    [g EXCEPT !.z = g.z + 1,
              !.n = g.n + 1,
              !.exists   = [u \in 0..g.z |-> IF u < g.z THEN g.exists[u] ELSE TRUE],
              !.outEdges = [u \in 0..g.z |-> IF u < g.z THEN g.outEdges[u] ELSE <<>>],
              !.inEdges  = [u \in 0..g.z |-> IF u < g.z THEN g.inEdges[u] ELSE <<>>]]

\* number of entries of an adjacency list that point at v
CountTo(adj, v) == Cardinality({i \in 1..Len(adj) : adj[i].node = v})

WithoutNode(adj, v) == SelectSeq(adj, LAMBDA e : e.node # v)

\* removeNode: the node's incident edges go with it, the id becomes a hole
removeNode(g, v) ==
    LET loops == CountTo(g.outEdges[v], v)
        gone  == IF g.directed
                 THEN Len(g.outEdges[v]) + Len(g.inEdges[v]) - loops
                 ELSE Len(g.outEdges[v])
    IN [g EXCEPT !.exists[v] = FALSE,
                 !.n = g.n - 1,
                 !.m = g.m - gone,
                 !.selfLoops = g.selfLoops - loops,
                 !.outEdges = [u \in 0..(g.z-1) |->
                                 IF u = v THEN <<>> ELSE WithoutNode(g.outEdges[u], v)],
                 !.inEdges  = [u \in 0..(g.z-1) |->
                                 IF u = v THEN <<>> ELSE WithoutNode(g.inEdges[u], v)]]

\* restoreNode: a hole becomes an existing node again
restoreNode(g, v) == [g EXCEPT !.exists[v] = TRUE, !.n = g.n + 1]

\* the adjacency record addEdge stores for an edge to node v
Entry(g, v, w, id) ==
    [node |-> v, weight |-> IF g.weighted THEN w ELSE defaultEdgeWeight, id |-> id]

\* addEdge(u, v, w): no check for an existing edge; a self-loop of an
\* undirected graph is stored once
addEdge(g, u, v, w) ==
    LET id == IF g.edgesIndexed THEN g.omega ELSE none
        o1 == [g.outEdges EXCEPT ![u] = Append(@, Entry(g, v, w, id))]
    IN [g EXCEPT !.m = g.m + 1,
                 !.selfLoops = g.selfLoops + (IF u = v THEN 1 ELSE 0),
                 !.omega = IF g.edgesIndexed THEN g.omega + 1 ELSE g.omega,
                 !.outEdges = IF g.directed \/ u = v THEN o1
                              ELSE [o1 EXCEPT ![v] = Append(@, Entry(g, u, w, id))],
                 !.inEdges  = IF g.directed
                              THEN [g.inEdges EXCEPT ![v] = Append(@, Entry(g, u, w, id))]
                              ELSE g.inEdges]

hasEdge(g, u, v) ==
    /\ u < g.z
    /\ v < g.z
    /\ \E i \in 1..Len(g.outEdges[u]) : g.outEdges[u][i].node = v

\* addPartialOutEdge / addPartialInEdge: one adjacency record, no counter
addPartialOutEdge(g, u, v, w, id) ==
    [g EXCEPT !.outEdges[u] =
        Append(@, Entry(g, v, w, IF g.edgesIndexed THEN id ELSE none))]

addPartialInEdge(g, u, v, w, id) ==
    [g EXCEPT !.inEdges[u] =
        Append(@, Entry(g, v, w, IF g.edgesIndexed THEN id ELSE none))]

setEdgeCount(g, edges) == [g EXCEPT !.m = edges]
setNumberOfSelfLoops(g, loops) == [g EXCEPT !.selfLoops = loops]
setUpperEdgeIdBound(g, newBound) == [g EXCEPT !.omega = newBound]

\* forNodes: the existing nodes in ascending order of id
RECURSIVE NodesFrom(_, _)
NodesFrom(g, u) ==
    IF u >= g.z THEN <<>>
    ELSE (IF g.exists[u] THEN <<u>> ELSE <<>>) \o NodesFrom(g, u + 1)

forNodes(g) == NodesFrom(g, 0)

\* the edges forEdges visits at node u: every out-edge of a directed graph,
\* the out-edges (u, v) with v <= u of an undirected one
EdgesAt(g, u) ==
    LET keep == SelectSeq(g.outEdges[u], LAMBDA e : g.directed \/ e.node <= u)
    IN [i \in 1..Len(keep) |->
          [u |-> u, v |-> keep[i].node, w |-> keep[i].weight, id |-> keep[i].id]]

RECURSIVE EdgesFrom(_, _)
EdgesFrom(g, u) ==
    IF u >= g.z THEN <<>>
    ELSE (IF g.exists[u] THEN EdgesAt(g, u) ELSE <<>>) \o EdgesFrom(g, u + 1)

\* forEdges: every edge once, as (u, v, weight, id)
forEdges(g) == EdgesFrom(g, 0)

\* checkConsistency of the counters against the adjacency lists
RECURSIVE SumOut(_, _)
SumOut(g, u) == IF u >= g.z THEN 0 ELSE Len(g.outEdges[u]) + SumOut(g, u + 1)

RECURSIVE SumIn(_, _)
SumIn(g, u) == IF u >= g.z THEN 0 ELSE Len(g.inEdges[u]) + SumIn(g, u + 1)

RECURSIVE SumLoops(_, _)
SumLoops(g, u) ==
    IF u >= g.z THEN 0 ELSE CountTo(g.outEdges[u], u) + SumLoops(g, u + 1)

checkConsistency(g) ==
    /\ g.selfLoops = SumLoops(g, 0)
    /\ IF g.directed
       THEN g.m = SumOut(g, 0) /\ g.m = SumIn(g, 0)
       ELSE 2 * g.m = SumOut(g, 0) + g.selfLoops
    /\ \A u \in 0..(g.z-1) : ~g.exists[u] =>
           g.outEdges[u] = <<>> /\ g.inEdges[u] = <<>>

(* ------------------- building an input graph --------------------------- *)
\* the caller adds an edge between two existing nodes of G
BuildAddEdge(maxSize) ==
    /\ pc = "build"
    /\ G.z + G.m < maxSize
    /\ G.z + G.omega < maxSize
    /\ \E u, v \in 0..(G.z-1) :
         \E w \in (IF G.weighted THEN Weights ELSE {defaultEdgeWeight}) :
            /\ hasNode(G, u) /\ hasNode(G, v)
            /\ G' = addEdge(G, u, v, w)
    /\ UNCHANGED <<pc, G1, idVars, trVars, subVars, combVars, degVars>>

\* the caller removes an existing node of G
BuildRemoveNode ==
    /\ pc = "build"
    /\ \E v \in 0..(G.z-1) :
         /\ hasNode(G, v)
         /\ G' = removeNode(G, v)
    /\ UNCHANGED <<pc, G1, idVars, trVars, subVars, combVars, degVars>>

\* the variables of the operations a specification does not exercise
NoIds == /\ nodeIdMap = <<>>
         /\ invertedIdMap = <<>>
         /\ Gcompact = NoGraph
         /\ Goriginal = NoGraph

NoTranspose == /\ Gin = NoGraph
               /\ GTranspose = NoGraph
               /\ wpc = <<>>
               /\ lock = none
               /\ writers = <<>>
               /\ err = "none"
               /\ GT1 = NoGraph
               /\ GT2 = NoGraph

NoSubgraph == /\ nodes = {}
              /\ includeOutNeighbors = FALSE
              /\ includeInNeighbors = FALSE
              /\ S = NoGraph

NoCombine == /\ Gpre = NoGraph
             /\ Gmid = NoGraph

NoDegree == /\ inDegree = FALSE
            /\ todo = {}
            /\ priv = <<>>
            /\ joined = {}
            /\ result = 0

(* ------------------------- Id Compactor -------------------------------- *)
\* addToMap with the counter incremented before it is used
RECURSIVE addToMapPreIncrement(_, _, _)
addToMapPreIncrement(order, i, map) ==
    IF i > Len(order) THEN map
    ELSE addToMapPreIncrement(order, i + 1,
                              IF order[i] \in DOMAIN map THEN map
                              ELSE map @@ (order[i] :> i))

\* the loop of getContinuousNodeIds over forNodes: order[i] gets the
\* counter value continuousId = i - 1
RECURSIVE addToMap(_, _, _)
addToMap(order, i, map) ==
    IF i > Len(order) THEN map
    ELSE addToMap(order, i + 1,
                  IF order[i] \in DOMAIN map THEN map
                  ELSE map @@ (order[i] :> (i - 1)))

getContinuousNodeIds(graph) == addToMap(forNodes(graph), 1, <<>>)

\* getRemappedGraph(graph, numNodes, oldIdToNew): a graph of numNodes nodes
\* with every edge of graph under mapped endpoints
RECURSIVE RemapEdges(_, _, _, _)
RemapEdges(Gnew, edges, i, oldIdToNew) ==
    IF i > Len(edges) THEN Gnew
    ELSE RemapEdges(addEdge(Gnew, oldIdToNew[edges[i].u], oldIdToNew[edges[i].v],
                            edges[i].w),
                    edges, i + 1, oldIdToNew)

getRemappedGraph(graph, numNodes, oldIdToNew) ==
    RemapEdges(NewGraph(numNodes, graph.weighted, graph.directed),
               forEdges(graph), 1, oldIdToNew)

getCompactedGraph(graph, map) ==
    getRemappedGraph(graph, Cardinality(DOMAIN map), map)

\* invertContinuousNodeIds: a zero-initialised vector of numberOfNodes + 1
\* entries, indexed from 0; the last entry is written first, then one entry
\* per pair of the map
invertContinuousNodeIds(map, g) ==
    [i \in 0..numberOfNodes(g) |->
        IF \E k \in DOMAIN map : map[k] = i
        THEN CHOOSE k \in DOMAIN map : map[k] = i
        ELSE IF i = numberOfNodes(g) THEN upperNodeIdBound(g) ELSE 0]

\* the inner loop of restoreGraph: forNeighborsOf(current) on the compacted
\* graph, adding each edge under restored ids, without a weight
RECURSIVE restoreNeighbors(_, _, _, _, _)
restoreNeighbors(Go, u, adj, i, inv) ==
    IF i > Len(adj) THEN Go
    ELSE restoreNeighbors(addEdge(Go, u, inv[adj[i].node], defaultEdgeWeight),
                          u, adj, i + 1, inv)

\* the forNodes loop of restoreGraph over the ids of Goriginal
RECURSIVE restoreLoop(_, _, _, _, _)
restoreLoop(inv, Gc, Go, u, current) ==
    IF u >= Go.z THEN Go
    ELSE IF inv[current] = u
         THEN restoreLoop(inv, Gc,
                          restoreNeighbors(Go, u, Gc.outEdges[current], 1, inv),
                          u + 1, current + 1)
         ELSE restoreLoop(inv, Gc, removeNode(Go, u), u + 1, current)

\* invertedIdMap.back()
Back(inv) == inv[Cardinality(DOMAIN inv) - 1]

restoreGraph(inv, Gc) ==
    restoreLoop(inv, Gc, NewGraph(Back(inv), Gc.weighted, Gc.directed), 0, 0)

GetContinuousNodeIds ==
    /\ pc = "build"
    /\ nodeIdMap' = getContinuousNodeIds(G)
    /\ pc' = "mapped"
    /\ UNCHANGED <<graphVars, invertedIdMap, Gcompact, Goriginal,
                   trVars, subVars, combVars, degVars>>

InvertContinuousNodeIds ==
    /\ pc = "mapped"
    /\ invertedIdMap' = invertContinuousNodeIds(nodeIdMap, G)
    /\ pc' = "inverted"
    /\ UNCHANGED <<graphVars, nodeIdMap, Gcompact, Goriginal,
                   trVars, subVars, combVars, degVars>>

GetCompactedGraph ==
    /\ pc = "inverted"
    /\ Gcompact' = getCompactedGraph(G, nodeIdMap)
    /\ pc' = "compacted"
    /\ UNCHANGED <<graphVars, nodeIdMap, invertedIdMap, Goriginal,
                   trVars, subVars, combVars, degVars>>

RestoreGraph ==
    /\ pc = "compacted"
    /\ Goriginal' = restoreGraph(invertedIdMap, Gcompact)
    /\ pc' = "restored"
    /\ UNCHANGED <<graphVars, nodeIdMap, invertedIdMap, Gcompact,
                   trVars, subVars, combVars, degVars>>

InitIds ==
    /\ pc = "build"
    /\ G \in {NewGraph(n, w, d) : n \in 0..MaxNodes, w \in BOOLEAN, d \in BOOLEAN}
    /\ G1 = NoGraph
    /\ NoIds /\ NoTranspose /\ NoSubgraph /\ NoCombine /\ NoDegree

NextIds ==
    \/ BuildAddEdge(MaxSize)
    \/ BuildRemoveNode
    \/ GetContinuousNodeIds
    \/ InvertContinuousNodeIds
    \/ GetCompactedGraph
    \/ RestoreGraph

SpecIds == InitIds /\ [][NextIds]_vars

\* number of adjacency records of u that point at v
Mult(g, u, v) == CountTo(g.outEdges[u], v)

\* the existing nodes of a graph
Existing(g) == {u \in 0..(g.z-1) : g.exists[u]}

SameNodes(a, b) == a.z = b.z /\ a.exists = b.exists

SameEdges(a, b) ==
    /\ a.m = b.m
    /\ \A u, v \in 0..(a.z-1) : Mult(a, u, v) = Mult(b, u, v)

\* C1: compacting G with getContinuousNodeIds and restoring it with the
\* inverted map gives back G's id bound, node-existence pattern and edges,
\* each edge once (weights aside), for directed and undirected G
C1_RoundTrip ==
    pc = "restored" => SameNodes(Goriginal, G) /\ SameEdges(Goriginal, G)

\* C1 for directed graphs only
C1_RoundTripDirected ==
    (pc = "restored" /\ G.directed) =>
        SameNodes(Goriginal, G) /\ SameEdges(Goriginal, G)

\* C1 for undirected graphs: the nodes come back, every edge that is not a
\* self-loop comes back twice
C1_RoundTripUndirected ==
    (pc = "restored" /\ ~G.directed) =>
        /\ SameNodes(Goriginal, G)
        /\ \A u, v \in 0..(G.z-1) :
             Mult(Goriginal, u, v) = (IF u = v THEN 1 ELSE 2) * Mult(G, u, v)

\* C2: getContinuousNodeIds maps the k-th smallest existing id to k, a
\* bijection onto [0, numberOfNodes); the inverted map has numberOfNodes + 1
\* entries, sends M[u] back to u, and ends with upperNodeIdBound
C2_ContinuousIds ==
    /\ pc \in {"mapped", "inverted", "compacted", "restored"} =>
         /\ DOMAIN nodeIdMap = Existing(G)
         /\ \A u \in Existing(G) :
               nodeIdMap[u] = Cardinality({x \in Existing(G) : x < u})
         /\ {nodeIdMap[u] : u \in Existing(G)} = 0..(numberOfNodes(G) - 1)
         /\ \A u, v \in Existing(G) : nodeIdMap[u] = nodeIdMap[v] => u = v
    /\ pc \in {"inverted", "compacted", "restored"} =>
         /\ DOMAIN invertedIdMap = 0..numberOfNodes(G)
         /\ \A u \in Existing(G) : invertedIdMap[nodeIdMap[u]] = u
         /\ invertedIdMap[numberOfNodes(G)] = upperNodeIdBound(G)

\* a graph with a hole below an existing node has been mapped and inverted
C2_Witness ==
    /\ pc = "inverted"
    /\ \E u \in Existing(G) : nodeIdMap[u] # u
    /\ numberOfNodes(G) >= 2

(* ------------------------- transpose ----------------------------------- *)
\* transpose without its guard
transposeRejectsNothing(g) == FALSE

\* the guard of transpose: an undirected graph is rejected
transposeRejects(g) == ~isDirected(g)

\* the result as allocated before the parallel loop: same id space and
\* weighted flag, directed, edge ids prepared when the input has them
transposeAlloc(g) ==
    IF hasEdgeIds(g)
    THEN indexEdges(NewGraph(upperNodeIdBound(g), isWeighted(g), TRUE))
    ELSE NewGraph(upperNodeIdBound(g), isWeighted(g), TRUE)

\* forInEdgesOf(u) of the input: one partial out-edge of u per in-edge
RECURSIVE addOutEdgesOf(_, _, _, _)
addOutEdgesOf(gt, u, adj, i) ==
    IF i > Len(adj) THEN gt
    ELSE addOutEdgesOf(addPartialOutEdge(gt, u, adj[i].node, adj[i].weight, adj[i].id),
                       u, adj, i + 1)

\* forEdgesOf(u) of the input: one partial in-edge of u per out-edge
RECURSIVE addInEdgesOf(_, _, _, _)
addInEdgesOf(gt, u, adj, i) ==
    IF i > Len(adj) THEN gt
    ELSE addInEdgesOf(addPartialInEdge(gt, u, adj[i].node, adj[i].weight, adj[i].id),
                      u, adj, i + 1)

\* the hole removal without the critical section
criticalAlways(l) == TRUE

\* the omp critical section is entered only when no worker is inside
criticalFree(l) == l = none

\* the final step without the copy of the self-loop count
transposeFinishNoLoops(gt, g) ==
    setUpperEdgeIdBound(setEdgeCount(gt, numberOfEdges(g)), upperEdgeIdBound(g))

\* the counters copied from the input after the parallel loop
transposeFinish(gt, g) ==
    setUpperEdgeIdBound(
        setNumberOfSelfLoops(setEdgeCount(gt, numberOfEdges(g)), numberOfSelfLoops(g)),
        upperEdgeIdBound(g))

\* the nodes whose adjacency lists differ between two states of the result
Written(old, new) ==
    {x \in 0..(old.z-1) :
        old.outEdges[x] # new.outEdges[x] \/ old.inEdges[x] # new.inEdges[x]}

Record(u, old, new) ==
    [x \in 0..(old.z-1) |->
        IF x \in Written(old, new) THEN writers[x] \cup {u} ELSE writers[x]]

Workers == 0..(Gin.z - 1)

\* transpose(g) called on an undirected graph: the error, nothing else
TransposeThrow ==
    /\ pc = "build"
    /\ transposeRejects(G)
    /\ err' = "runtime_error"
    /\ pc' = "thrown"
    /\ UNCHANGED <<graphVars, idVars, Gin, GTranspose, wpc, lock, writers, GT1, GT2,
                   subVars, combVars, degVars>>

\* transpose(g) up to the start of the parallel loop
transposeBegin(g, next) ==
    /\ ~transposeRejects(g)
    /\ Gin' = g
    /\ GTranspose' = transposeAlloc(g)
    /\ wpc' = [u \in 0..(g.z-1) |-> "start"]
    /\ writers' = [u \in 0..(g.z-1) |-> {}]
    /\ lock' = none
    /\ pc' = next
    /\ UNCHANGED <<graphVars, idVars, err, GT1, GT2, subVars, combVars, degVars>>

TransposeFirst == pc = "build" /\ transposeBegin(G, "parallel1")

TransposeSecond == pc = "returned1" /\ transposeBegin(GT1, "parallel2")

\* iteration u, node exists: preallocate, then the in-edge loop and the
\* out-edge loop
WorkerAddEdges(u) ==
    /\ pc \in {"parallel1", "parallel2"}
    /\ wpc[u] = "start"
    /\ hasNode(Gin, u)
    /\ GTranspose' = addInEdgesOf(addOutEdgesOf(GTranspose, u, Gin.inEdges[u], 1),
                                  u, Gin.outEdges[u], 1)
    /\ writers' = Record(u, GTranspose, GTranspose')
    /\ wpc' = [wpc EXCEPT ![u] = "done"]
    /\ UNCHANGED <<pc, graphVars, idVars, Gin, lock, err, GT1, GT2,
                   subVars, combVars, degVars>>

\* iteration u, node is a hole: enter the critical section
WorkerEnterCritical(u) ==
    /\ pc \in {"parallel1", "parallel2"}
    /\ wpc[u] = "start"
    /\ ~hasNode(Gin, u)
    /\ criticalFree(lock)
    /\ lock' = u
    /\ wpc' = [wpc EXCEPT ![u] = "critical"]
    /\ UNCHANGED <<pc, graphVars, idVars, Gin, GTranspose, writers, err, GT1, GT2,
                   subVars, combVars, degVars>>

\* iteration u, node is a hole: removeNode and leave the critical section
WorkerRemoveNode(u) ==
    /\ pc \in {"parallel1", "parallel2"}
    /\ wpc[u] = "critical"
    /\ GTranspose' = removeNode(GTranspose, u)
    /\ writers' = Record(u, GTranspose, GTranspose')
    /\ lock' = none
    /\ wpc' = [wpc EXCEPT ![u] = "done"]
    /\ UNCHANGED <<pc, graphVars, idVars, Gin, err, GT1, GT2,
                   subVars, combVars, degVars>>

\* after the join: the counters are set and the graph is returned
TransposeReturn ==
    /\ pc \in {"parallel1", "parallel2"}
    /\ \A u \in Workers : wpc[u] = "done"
    /\ GTranspose' = transposeFinish(GTranspose, Gin)
    /\ IF pc = "parallel1"
       THEN GT1' = GTranspose' /\ pc' = "returned1" /\ UNCHANGED GT2
       ELSE GT2' = GTranspose' /\ pc' = "returned2" /\ UNCHANGED GT1
    /\ UNCHANGED <<graphVars, idVars, Gin, wpc, lock, writers, err,
                   subVars, combVars, degVars>>

InitTranspose ==
    /\ pc = "build"
    /\ \E n \in 0..MaxNodes, w \in BOOLEAN, d \in BOOLEAN, x \in BOOLEAN :
          G = IF x THEN indexEdges(NewGraph(n, w, d)) ELSE NewGraph(n, w, d)
    /\ G1 = NoGraph
    /\ NoIds /\ NoTranspose /\ NoSubgraph /\ NoCombine /\ NoDegree

NextTranspose ==
    \/ BuildAddEdge(MaxSize)
    \/ BuildRemoveNode
    \/ TransposeThrow
    \/ TransposeFirst
    \/ TransposeSecond
    \/ \E u \in Workers : WorkerAddEdges(u)
    \/ \E u \in Workers : WorkerEnterCritical(u)
    \/ \E u \in Workers : WorkerRemoveNode(u)
    \/ TransposeReturn

SpecTranspose == InitTranspose /\ [][NextTranspose]_vars

\* the directed edges of a graph as (u, v, weight, id), read from the
\* out-lists and from the in-lists
EdgeSet(g) ==
    UNION {{<<u, g.outEdges[u][i].node, g.outEdges[u][i].weight, g.outEdges[u][i].id>> :
              i \in 1..Len(g.outEdges[u])} : u \in 0..(g.z-1)}

InEdgeSet(g) ==
    UNION {{<<g.inEdges[v][i].node, v, g.inEdges[v][i].weight, g.inEdges[v][i].id>> :
              i \in 1..Len(g.inEdges[v])} : v \in 0..(g.z-1)}

Reversed(edges) == {<<e[2], e[1], e[3], e[4]>> : e \in edges}

SameCounters(a, b) ==
    /\ numberOfEdges(a) = numberOfEdges(b)
    /\ numberOfSelfLoops(a) = numberOfSelfLoops(b)
    /\ upperEdgeIdBound(a) = upperEdgeIdBound(b)

\* C3: for a directed graph with edge ids, transpose(G) has edge (v, u)
\* with weight w and id e exactly when G has (u, v) with w and e, and
\* transpose(transpose(G)) has G's nodes, edges with weights and ids, edge
\* count, self-loop count and edge-id bound
C3_TransposeInvolution ==
    (G.directed /\ G.edgesIndexed) =>
        /\ pc \in {"returned1", "parallel2", "returned2"} =>
             /\ SameNodes(GT1, G)
             /\ EdgeSet(GT1) = Reversed(EdgeSet(G))
             /\ InEdgeSet(GT1) = Reversed(InEdgeSet(G))
             /\ SameCounters(GT1, G)
        /\ pc = "returned2" =>
             /\ SameNodes(GT2, G)
             /\ EdgeSet(GT2) = EdgeSet(G)
             /\ InEdgeSet(GT2) = InEdgeSet(G)
             /\ SameCounters(GT2, G)
             /\ hasEdgeIds(GT2)

\* a directed indexed graph with a hole, a self-loop and another edge has
\* been transposed twice
C3_Witness ==
    /\ pc = "returned2"
    /\ G.directed /\ G.edgesIndexed /\ G.weighted
    /\ numberOfNodes(G) < upperNodeIdBound(G)
    /\ numberOfSelfLoops(G) = 1
    /\ numberOfEdges(G) = 2
    /\ \E e \in EdgeSet(G) : e[3] = 2

\* C4: transpose of an undirected graph raises the error before any graph
\* is constructed and returns nothing; transpose of a directed graph never
\* raises it
C4_UndirectedRejected ==
    /\ (pc # "build" /\ ~G.directed) =>
          /\ pc = "thrown"
          /\ err = "runtime_error"
          /\ GTranspose = NoGraph /\ GT1 = NoGraph /\ GT2 = NoGraph
          /\ wpc = <<>>
    /\ G.directed => err = "none" /\ pc # "thrown"

\* transpose has been called on an undirected graph with an edge
C4_Witness == pc = "thrown" /\ ~G.directed /\ numberOfEdges(G) >= 1

\* transpose has been called on an undirected graph without nodes
C4_WitnessEmpty == pc = "thrown" /\ ~G.directed /\ upperNodeIdBound(G) = 0

\* the graph transpose returns for input g
Swapped(g) == [g EXCEPT !.outEdges = g.inEdges, !.inEdges = g.outEdges]

\* C10: in transpose of a directed graph, under every interleaving, each
\* node's adjacency lists are written by its own worker only, at most one
\* worker is inside the hole removal, the edge count, self-loop count and
\* edge-id bound are untouched until all workers are done, and the returned
\* graph is the same whatever the interleaving and has numberOfEdges equal
\* to the sum of its out-list sizes and of its in-list sizes
C10_TransposeWorkers ==
    /\ pc \in {"parallel1", "parallel2", "returned1", "returned2"} =>
          /\ \A x \in Workers : writers[x] \subseteq {x}
          /\ Cardinality({u \in Workers : wpc[u] = "critical"}) <= 1
    /\ pc \in {"parallel1", "parallel2"} =>
          /\ numberOfEdges(GTranspose) = 0
          /\ numberOfSelfLoops(GTranspose) = 0
          /\ upperEdgeIdBound(GTranspose) = 0
    /\ pc \in {"returned1", "parallel2", "returned2"} =>
          /\ GT1 = Swapped(G)
          /\ numberOfEdges(GT1) = SumOut(GT1, 0)
          /\ numberOfEdges(GT1) = SumIn(GT1, 0)
          /\ checkConsistency(GT1)
    /\ pc = "returned2" =>
          /\ GT2 = Swapped(GT1)
          /\ checkConsistency(GT2)

\* two hole workers and a worker of a node with edges have run, one hole
\* worker waiting while the other was in the critical section
C10_Witness ==
    /\ pc = "returned1"
    /\ Cardinality({u \in Workers : ~hasNode(G, u)}) >= 2
    /\ numberOfEdges(G) >= 2
    /\ \E x \in Workers : writers[x] = {x}

\* two hole workers compete for the critical section
C10_WitnessCritical ==
    /\ pc = "parallel1"
    /\ \E u, v \in Workers : u # v /\ wpc[u] = "critical" /\ wpc[v] = "start"
                               /\ ~hasNode(Gin, v)

(* ------------------------ subgraphFromNodes ---------------------------- *)
\* neighborRange(u) / inNeighborRange(u): the nodes of u's out-list / in-list
\* (the in-list of an undirected graph is its only list)
neighborRange(g, u) == {g.outEdges[u][i].node : i \in 1..Len(g.outEdges[u])}

inNeighborRange(g, u) ==
    IF g.directed THEN {g.inEdges[u][i].node : i \in 1..Len(g.inEdges[u])}
    ELSE neighborRange(g, u)

\* the neighbor set computed first
neighborsOf(g, ns, out, in) ==
    IF ~out /\ ~in THEN {}
    ELSE UNION {(IF out THEN neighborRange(g, u) ELSE {})
                \cup (IF in THEN inNeighborRange(g, u) ELSE {}) : u \in ns}

isRelevantNode(ns, neighbors, u) ==
    IF u \in ns THEN 2
    ELSE IF neighbors # {} /\ u \in neighbors THEN 1
    ELSE 0

\* the forNodes loop over the fresh graph: nodes of score 0 are removed
RECURSIVE dropIrrelevant(_, _, _, _)
dropIrrelevant(Sg, ns, neighbors, u) ==
    IF u >= Sg.z THEN Sg
    ELSE dropIrrelevant(IF hasNode(Sg, u) /\ isRelevantNode(ns, neighbors, u) = 0
                        THEN removeNode(Sg, u) ELSE Sg,
                        ns, neighbors, u + 1)

\* the edge test with >= in place of >
keepsEdgeLoose(ru, rv) == ru + rv >= 2

\* the test of the forEdges loop on the two scores
keepsEdge(ru, rv) == ru + rv > 2

RECURSIVE copyRelevantEdges(_, _, _, _, _)
copyRelevantEdges(Sg, edges, i, ns, neighbors) ==
    IF i > Len(edges) THEN Sg
    ELSE copyRelevantEdges(
            IF keepsEdge(isRelevantNode(ns, neighbors, edges[i].u),
                         isRelevantNode(ns, neighbors, edges[i].v))
            THEN addEdge(Sg, edges[i].u, edges[i].v, edges[i].w) ELSE Sg,
            edges, i + 1, ns, neighbors)

subgraphFromNodes(g, ns, out, in) ==
    LET neighbors == neighborsOf(g, ns, out, in)
        S0 == NewGraph(upperNodeIdBound(g), isWeighted(g), isDirected(g))
    IN copyRelevantEdges(dropIrrelevant(S0, ns, neighbors, 0),
                         forEdges(g), 1, ns, neighbors)

SubgraphFromNodes ==
    /\ pc = "build"
    /\ \E ns \in SUBSET (0..(G.z-1)), out \in BOOLEAN, in \in BOOLEAN :
          /\ nodes' = ns
          /\ includeOutNeighbors' = out
          /\ includeInNeighbors' = in
          /\ S' = subgraphFromNodes(G, ns, out, in)
    /\ pc' = "extracted"
    /\ UNCHANGED <<graphVars, idVars, trVars, combVars, degVars>>

InitSubgraph ==
    /\ pc = "build"
    /\ G \in {NewGraph(n, w, d) : n \in 0..MaxNodes, w \in BOOLEAN, d \in BOOLEAN}
    /\ G1 = NoGraph
    /\ NoIds /\ NoTranspose /\ NoSubgraph /\ NoCombine /\ NoDegree

NextSubgraph ==
    \/ BuildAddEdge(MaxSize)
    \/ BuildRemoveNode
    \/ SubgraphFromNodes

SpecSubgraph == InitSubgraph /\ [][NextSubgraph]_vars

\* number of adjacency records of u that point at v with weight w
MultW(g, u, v, w) ==
    Cardinality({i \in 1..Len(g.outEdges[u]) :
                    g.outEdges[u][i].node = v /\ g.outEdges[u][i].weight = w})

\* the neighbor expansion set of the call, read from G's out-lists
Expansion ==
    {v \in 0..(G.z-1) : \E u \in nodes :
        \/ includeOutNeighbors /\ u < G.z /\ Mult(G, u, v) > 0
        \/ includeInNeighbors /\ u < G.z /\ Mult(G, v, u) > 0}

\* one endpoint in the node set, the other in the node set or in exp
Included(u, v, exp) ==
    \/ u \in nodes /\ v \in nodes \cup exp
    \/ v \in nodes /\ u \in nodes \cup exp

\* C5: the result of subgraphFromNodes holds an edge (u, v) of G, with its
\* weight, iff one endpoint is in the node set and the other is in the node
\* set or the neighbor expansion; so no edge joins two nodes outside the
\* node set, and without neighbor flags the result is the induced subgraph
C5_SubgraphEdges ==
    pc = "extracted" =>
        LET exp == Expansion
        IN /\ \A u, v \in 0..(G.z-1) : \A w \in Weights :
                 MultW(S, u, v, w) =
                    IF Included(u, v, exp) THEN MultW(G, u, v, w) ELSE 0
           /\ \A u, v \in 0..(G.z-1) :
                 Mult(S, u, v) > 0 => u \in nodes \/ v \in nodes
           /\ (~includeOutNeighbors /\ ~includeInNeighbors) =>
                 \A u, v \in 0..(G.z-1) :
                    /\ Mult(S, u, v) > 0 => u \in nodes /\ v \in nodes
                    /\ (u \in nodes /\ v \in nodes) => Mult(S, u, v) = Mult(G, u, v)

\* a call with neighbor expansion that keeps an edge of weight 2 to a
\* neighbor and drops an edge between two nodes outside the node set
C5_Witness ==
    /\ pc = "extracted"
    /\ includeOutNeighbors
    /\ G.weighted
    /\ \E u, v \in 0..(G.z-1) :
          u \in nodes /\ v \notin nodes /\ MultW(S, u, v, 2) = 1
    /\ \E u, v \in 0..(G.z-1) :
          u \notin nodes /\ v \notin nodes /\ Mult(G, u, v) > 0 /\ Mult(S, u, v) = 0

\* C6: the result of subgraphFromNodes has G's id bound and its existing
\* nodes are exactly the existing nodes of G of relevance score 1 or 2, so a
\* hole of G stays a hole even when it is a member of the node set
C6_SubgraphNodes ==
    pc = "extracted" =>
        /\ upperNodeIdBound(S) = upperNodeIdBound(G)
        /\ \A u \in 0..(G.z-1) :
              hasNode(S, u) <=> (hasNode(G, u) /\ u \in nodes \cup Expansion)

\* what the code does: every id of relevance score 1 or 2 exists in the
\* result, whether or not it exists in G
C6_SubgraphNodesByScore ==
    pc = "extracted" =>
        /\ upperNodeIdBound(S) = upperNodeIdBound(G)
        /\ \A u \in 0..(G.z-1) : hasNode(S, u) <=> u \in nodes \cup Expansion

(* ------------------------- append / merge ------------------------------ *)
\* the caller adds an edge between two existing nodes of the source graph
BuildSourceAddEdge ==
    /\ pc = "build"
    /\ G1.z + G1.m < MaxSourceSize
    /\ \E u, v \in 0..(G1.z-1) :
         \E w \in (IF G1.weighted THEN Weights ELSE {defaultEdgeWeight}) :
            /\ hasNode(G1, u) /\ hasNode(G1, v)
            /\ G1' = addEdge(G1, u, v, w)
    /\ UNCHANGED <<pc, G, idVars, trVars, subVars, combVars, degVars>>

\* the caller removes an existing node of the source graph
BuildSourceRemoveNode ==
    /\ pc = "build"
    /\ \E v \in 0..(G1.z-1) :
         /\ hasNode(G1, v)
         /\ G1' = removeNode(G1, v)
    /\ UNCHANGED <<pc, G, idVars, trVars, subVars, combVars, degVars>>

\* the first loop of append: one fresh node of g per node of the source;
\* the pair <<graph, nodeMap>> after the nodes order[i..]
RECURSIVE appendNodes(_, _, _, _)
appendNodes(g, order, i, nodeMap) ==
    IF i > Len(order) THEN <<g, nodeMap>>
    ELSE appendNodes(addNode(g), order, i + 1,
                     [x \in DOMAIN nodeMap \cup {order[i]} |->
                         IF x = order[i] THEN upperNodeIdBound(g) ELSE nodeMap[x]])

\* the endpoint append uses for source node u
appendEndpoint(nodeMap, u) == nodeMap[u]

\* the second loop of append: every edge of the source under mapped
\* endpoints, with its weight when g is weighted
RECURSIVE appendEdges(_, _, _, _)
appendEdges(g, edges, i, nodeMap) ==
    IF i > Len(edges) THEN g
    ELSE appendEdges(
            IF isWeighted(g)
            THEN addEdge(g, appendEndpoint(nodeMap, edges[i].u),
                         appendEndpoint(nodeMap, edges[i].v), edges[i].w)
            ELSE addEdge(g, appendEndpoint(nodeMap, edges[i].u),
                         appendEndpoint(nodeMap, edges[i].v), defaultEdgeWeight),
            edges, i + 1, nodeMap)

\* append with one fresh node per id of the source, holes included
appendAllIds(g, g1) ==
    LET ids == [i \in 1..upperNodeIdBound(g1) |-> i - 1]
        r == appendNodes(g, ids, 1, <<>>)
    IN appendEdges(r[1], forEdges(g1), 1, r[2])

append(g, g1) ==
    LET r == appendNodes(g, forNodes(g1), 1, <<>>)
    IN appendEdges(r[1], forEdges(g1), 1, r[2])

\* merge, first part: grow g up to the source's id bound ...
RECURSIVE mergeGrow(_, _, _)
mergeGrow(g, i, bound) ==
    IF i >= bound THEN g ELSE mergeGrow(addNode(g), i + 1, bound)

\* ... and remove the new ids that are holes of the source
RECURSIVE mergeDropHoles(_, _, _)
mergeDropHoles(g, g1, i) ==
    IF i >= upperNodeIdBound(g1) THEN g
    ELSE mergeDropHoles(IF ~hasNode(g1, i) THEN removeNode(g, i) ELSE g, g1, i + 1)

\* merge, second part: restore the holes of g that exist in the source
RECURSIVE mergeRestore(_, _, _)
mergeRestore(g, g1, i) ==
    IF i >= upperNodeIdBound(g) THEN g
    ELSE mergeRestore(IF ~hasNode(g, i) /\ hasNode(g1, i) THEN restoreNode(g, i) ELSE g,
                      g1, i + 1)

\* merge without the hasEdge test
mergeAddsEdgeAlways(g, u, v) == TRUE

\* the test merge makes before adding a source edge
mergeAddsEdge(g, u, v) == ~hasEdge(g, u, v)

\* merge, third part: the source edges g does not have yet
RECURSIVE mergeEdges(_, _, _)
mergeEdges(g, edges, i) ==
    IF i > Len(edges) THEN g
    ELSE mergeEdges(IF mergeAddsEdge(g, edges[i].u, edges[i].v)
                    THEN addEdge(g, edges[i].u, edges[i].v, edges[i].w) ELSE g,
                    edges, i + 1)

merge(g, g1) ==
    LET grown == IF upperNodeIdBound(g1) > upperNodeIdBound(g)
                 THEN mergeDropHoles(mergeGrow(g, upperNodeIdBound(g),
                                               upperNodeIdBound(g1)),
                                     g1, upperNodeIdBound(g))
                 ELSE g
    IN mergeEdges(mergeRestore(grown, g1, 0), forEdges(g1), 1)

AppendCall ==
    /\ pc = "build"
    /\ Gpre' = G
    /\ G' = append(G, G1)
    /\ pc' = "appended"
    /\ UNCHANGED <<G1, Gmid, idVars, trVars, subVars, degVars>>

MergeCall ==
    /\ pc = "build"
    /\ Gpre' = G
    /\ G' = merge(G, G1)
    /\ Gmid' = G'
    /\ pc' = "merged"
    /\ UNCHANGED <<G1, idVars, trVars, subVars, degVars>>

MergeAgain ==
    /\ pc = "merged"
    /\ G' = merge(G, G1)
    /\ pc' = "merged2"
    /\ UNCHANGED <<G1, combVars, idVars, trVars, subVars, degVars>>

InitCombine ==
    /\ pc = "build"
    /\ \E n, n1 \in 0..MaxPairNodes, w \in BOOLEAN, d \in BOOLEAN :
          /\ G = NewGraph(n, w, d)
          /\ G1 = NewGraph(n1, w, d)
    /\ NoIds /\ NoTranspose /\ NoSubgraph /\ NoCombine /\ NoDegree

NextCombine ==
    \/ BuildAddEdge(MaxTargetSize)
    \/ BuildRemoveNode
    \/ BuildSourceAddEdge
    \/ BuildSourceRemoveNode
    \/ AppendCall
    \/ MergeCall
    \/ MergeAgain

SpecCombine == InitCombine /\ [][NextCombine]_vars

\* the number of edges between u and v, whatever their direction
Joined(g, u, v) ==
    IF g.directed /\ u # v THEN Mult(g, u, v) + Mult(g, v, u) ELSE Mult(g, u, v)

\* the id append gives to source node u: the old bound plus u's rank
Image(u) == upperNodeIdBound(Gpre) + Cardinality({x \in Existing(G1) : x < u})

\* C8: append only grows the accumulator: old ids keep their existence and
\* their adjacency, numberOfNodes(source) fresh consecutive ids are added
\* from the old bound on, one per source node in ascending order, and
\* numberOfEdges(source) edges are added, each between the images of its
\* endpoints
C8_AppendGrows ==
    pc = "appended" =>
        /\ upperNodeIdBound(G) = upperNodeIdBound(Gpre) + numberOfNodes(G1)
        /\ numberOfNodes(G) = numberOfNodes(Gpre) + numberOfNodes(G1)
        /\ numberOfEdges(G) = numberOfEdges(Gpre) + numberOfEdges(G1)
        /\ \A u \in 0..(Gpre.z-1) :
              /\ G.exists[u] = Gpre.exists[u]
              /\ G.outEdges[u] = Gpre.outEdges[u]
              /\ G.inEdges[u] = Gpre.inEdges[u]
        /\ \A u \in Gpre.z..(G.z-1) : G.exists[u]
        /\ {Image(u) : u \in Existing(G1)} = Gpre.z..(G.z-1)
        /\ \A u, v \in Existing(G1) :
              /\ Joined(G, Image(u), Image(v)) = Joined(G1, u, v)
              /\ Mult(G, Image(u), Image(v)) = Mult(G1, u, v)

\* a source with a hole below a node and an edge has been appended to an
\* accumulator that has an edge and a hole of its own
C8_Witness ==
    /\ pc = "appended"
    /\ numberOfEdges(Gpre) >= 1
    /\ numberOfNodes(Gpre) < upperNodeIdBound(Gpre)
    /\ numberOfEdges(G1) >= 1
    /\ \E u \in Existing(G1) : Image(u) # upperNodeIdBound(Gpre) + u

NoDuplicateEdges(g) == \A u, v \in 0..(g.z-1) : Mult(g, u, v) <= 1

Max(a, b) == IF a >= b THEN a ELSE b

\* C7: after merge(T, S), T without duplicate edges: T's nodes are the
\* union of both node sets under their ids, its bound the larger bound, its
\* edges the union of both edge sets with at most one edge per pair of
\* endpoints; a second merge(T, S) leaves T unchanged
C7_MergeUnion ==
    (pc \in {"merged", "merged2"} /\ NoDuplicateEdges(Gpre)) =>
        /\ upperNodeIdBound(Gmid) = Max(upperNodeIdBound(Gpre), upperNodeIdBound(G1))
        /\ \A u \in 0..(Gmid.z-1) :
              hasNode(Gmid, u) <=> (hasNode(Gpre, u) \/ hasNode(G1, u))
        /\ \A u, v \in 0..(Gmid.z-1) :
              /\ Mult(Gmid, u, v) <= 1
              /\ Mult(Gmid, u, v) = 1 <=> (hasEdge(Gpre, u, v) \/ hasEdge(G1, u, v))
        /\ checkConsistency(Gmid)
        /\ pc = "merged2" => G = Gmid

\* a source with a duplicate edge, an edge the accumulator has already and
\* a larger id space has been merged twice
C7_Witness ==
    /\ pc = "merged2"
    /\ NoDuplicateEdges(Gpre)
    /\ upperNodeIdBound(G1) > upperNodeIdBound(Gpre)
    /\ \E u, v \in 0..(Gpre.z-1) : hasEdge(Gpre, u, v) /\ Mult(G1, u, v) = 2

\* the source has a hole above the accumulator's bound and a node at one of
\* the accumulator's holes
C7_WitnessHoles ==
    /\ pc = "merged2"
    /\ NoDuplicateEdges(Gpre)
    /\ \E u \in 0..(G1.z-1) : u >= Gpre.z /\ ~hasNode(G1, u)
    /\ \E u \in 0..(Gpre.z-1) : ~hasNode(Gpre, u) /\ hasNode(G1, u)

(* ------------------------ computeMaxDegree ----------------------------- *)
Threads == 1..NumThreads

\* the value one loop iteration reads for id u
degreeOf(g, in, u) == IF in THEN degreeIn(g, u) ELSE degreeOut(g, u)

\* an assignment in place of the max
reduceLast(a, b) == b

\* std::max, the body of the loop and the combiner of the reduction
reduceMax(a, b) == IF a >= b THEN a ELSE b

\* the build without the parallel loop: forNodes, one thread
RECURSIVE maxOverNodes(_, _, _, _, _)
maxOverNodes(g, in, order, i, acc) ==
    IF i > Len(order) THEN acc
    ELSE maxOverNodes(g, in, order, i + 1, reduceMax(acc, degreeOf(g, in, order[i])))

ComputeMaxDegreeSequential ==
    /\ pc = "build"
    /\ \E in \in BOOLEAN :
          /\ inDegree' = in
          /\ result' = maxOverNodes(G, in, forNodes(G), 1, 0)
    /\ pc' = "returned"
    /\ UNCHANGED <<graphVars, todo, priv, joined, idVars, trVars, subVars, combVars>>

\* entry of the parallel loop: every thread gets a private result, set to
\* the identity of max
ComputeMaxDegreeBegin ==
    /\ pc = "build"
    /\ inDegree' \in BOOLEAN
    /\ result' = 0
    /\ todo' = 0..(upperNodeIdBound(G) - 1)
    /\ priv' = [t \in Threads |-> 0]
    /\ joined' = {}
    /\ pc' = "reduce"
    /\ UNCHANGED <<graphVars, idVars, trVars, subVars, combVars>>

\* thread t runs the iteration of id u on its private result
ThreadIteration(t, u) ==
    /\ pc = "reduce"
    /\ t \notin joined
    /\ u \in todo
    /\ priv' = [priv EXCEPT ![t] = reduceMax(@, degreeOf(G, inDegree, u))]
    /\ todo' = todo \ {u}
    /\ UNCHANGED <<pc, graphVars, inDegree, joined, result,
                   idVars, trVars, subVars, combVars>>

\* thread t has no iteration left and combines its private result; the
\* last thread leaves only when no iteration is left
ThreadCombine(t) ==
    /\ pc = "reduce"
    /\ t \notin joined
    /\ todo = {} \/ joined \cup {t} # Threads
    /\ result' = reduceMax(result, priv[t])
    /\ joined' = joined \cup {t}
    /\ UNCHANGED <<pc, graphVars, inDegree, todo, priv,
                   idVars, trVars, subVars, combVars>>

ComputeMaxDegreeReturn ==
    /\ pc = "reduce"
    /\ joined = Threads
    /\ pc' = "returned"
    /\ UNCHANGED <<graphVars, degVars, idVars, trVars, subVars, combVars>>

InitDegree ==
    /\ pc = "build"
    /\ G \in {NewGraph(n, FALSE, d) : n \in 0..MaxNodes, d \in BOOLEAN}
    /\ G1 = NoGraph
    /\ NoIds /\ NoTranspose /\ NoSubgraph /\ NoCombine /\ NoDegree

NextDegree ==
    \/ BuildAddEdge(MaxSize)
    \/ BuildRemoveNode
    \/ ComputeMaxDegreeSequential
    \/ ComputeMaxDegreeBegin
    \/ \E t \in Threads, u \in 0..(G.z-1) : ThreadIteration(t, u)
    \/ \E t \in Threads : ThreadCombine(t)
    \/ ComputeMaxDegreeReturn

SpecDegree == InitDegree /\ [][NextDegree]_vars

\* the out-degree and in-degree of u counted over G's out-lists
RECURSIVE SumMult(_, _, _)
SumMult(g, v, u) ==
    IF v >= g.z THEN 0 ELSE Mult(g, v, u) + SumMult(g, v + 1, u)

CountedDegree(u) ==
    IF inDegree /\ G.directed THEN SumMult(G, 0, u) ELSE Len(G.outEdges[u])

\* C9: computeMaxDegree returns the largest out-degree (in-degree, with the
\* flag) of an existing node, 0 for a graph without edges or nodes; holes
\* contribute 0; the partition of the ids among the threads and the order of
\* combining do not matter
C9_MaxDegree ==
    /\ \A u \in 0..(G.z-1) : ~hasNode(G, u) => degreeOf(G, inDegree, u) = 0
    /\ pc = "returned" =>
          /\ \A u \in Existing(G) : CountedDegree(u) <= result
          /\ \/ \E u \in Existing(G) : CountedDegree(u) = result
             \/ result = 0 /\ (Existing(G) = {} \/ numberOfEdges(G) = 0)

\* the in-degree reduction has returned 2 for a directed graph with a hole,
\* the largest degree found by a thread that combined first
C9_Witness ==
    /\ pc = "returned"
    /\ priv # <<>>
    /\ inDegree /\ G.directed
    /\ numberOfNodes(G) < upperNodeIdBound(G)
    /\ result = 2
    /\ \E t \in Threads : priv[t] = 0
    /\ \E u \in Existing(G) : degreeOut(G, u) = 0 /\ CountedDegree(u) = 2

\* an empty graph
C9_WitnessEmpty == pc = "returned" /\ upperNodeIdBound(G) = 0 /\ result = 0

====
